---- MODULE Spec2Model ----
(***************************************************************************)
(* Model of V11.py: the particle-circularity session (CircularityCalculator)*)
(* and its modal crop editor (ImageCropDialog).                             *)
(*                                                                          *)
(* Images are kept pixel by pixel: a colour image is a sequence of rows of  *)
(* <<b, g, r>> triples, a grayscale image or a mask a sequence of rows of   *)
(* 0..255 values.  Python's None is the record None.                        *)
(***************************************************************************)
EXTENDS Integers, Sequences, FiniteSets, TLC

\* ---------------------------------------------------------------- helpers
Max(a, b) == IF a >= b THEN a ELSE b

Min(a, b) == IF a <= b THEN a ELSE b

Abs(a) == IF a >= 0 THEN a ELSE -a

\* Python int() of the real number num/den (den > 0): truncation towards zero.
IntTrunc(num, den) == IF num >= 0 THEN num \div den ELSE -((-num) \div den)

\* ------------------------------------------------------------ image values
None == [isNone |-> TRUE, rows |-> << >>]

Img(rows) == [isNone |-> FALSE, rows |-> rows]

Height(img) == Len(img.rows)

Width(img) == IF Len(img.rows) = 0 THEN 0 ELSE Len(img.rows[1])

\* numpy's .size == 0 / cv::Mat::empty()
IsEmpty(img) == ~img.isNone /\ (Height(img) = 0 \/ Width(img) = 0)

\* A usable image: neither None nor empty.
IsPresent(img) == ~img.isNone /\ ~IsEmpty(img)

\* ------------------------------------------------------------ file contents
K == <<0, 0, 0>>

W == <<255, 255, 255>>

G == <<160, 160, 160>>

R == <<0, 0, 255>>

\* 6 x 4 picture: a black 2x2 grain, a single pixel of gray level 160 and a
\* red 3x2 grain on a white background.
GrainsRows ==
  << <<K, K, W, G, W, W>>,
     <<K, K, W, W, W, W>>,
     <<W, W, W, R, R, R>>,
     <<W, W, W, R, R, R>> >>

TallHeight == 50

\* 1 x 50 picture (a very narrow strip): three black pixels on top of white.
TallRows == [i \in 1..TallHeight |-> << IF i <= 3 THEN K ELSE W >>]

DecodableFiles == {"grains.png", "tall.png"}

UndecodableFiles == {"broken.png"}

\* What the file dialog can return: "" is a cancelled dialog.
FileChoices == DecodableFiles \cup UndecodableFiles \cup {""}

\* cv2.imread: the decoded BGR image, or None when the file cannot be decoded.
imread(path) ==
  IF path = "grains.png" THEN Img(GrainsRows)
  ELSE IF path = "tall.png" THEN Img(TallRows)
  ELSE None

\* ------------------------------------------------------------- conversions
\* cv2.cvtColor(BGR2GRAY) on one 8-bit pixel: fixed-point luminance,
\* (1868*b + 9617*g + 4899*r + 2^13) >> 14.
GrayOfPixel(p) == (1868 * p[1] + 9617 * p[2] + 4899 * p[3] + 8192) \div 16384

\* cv2.cvtColor(img, COLOR_BGR2GRAY); raises cv2.error on an empty image.
cvtColorGray(img) ==
  Img([y \in 1..Height(img) |-> [x \in 1..Width(img) |-> GrayOfPixel(img.rows[y][x])]])

cvtColorRaises(img) == img.isNone \/ IsEmpty(img)

\* cv2.threshold(..., maxval = 255, THRESH_BINARY_INV) on one pixel:
\* dst = 0 if src > thresh, else maxval.
ThresholdPixelLT(g, t) == IF g < t THEN 255 ELSE 0

ThresholdPixelNotInverted(g, t) == IF g > t THEN 255 ELSE 0

ThresholdPixel(g, t) == IF g > t THEN 0 ELSE 255

\* cv2.threshold over a whole grayscale image.
threshold(gray, t) ==
  Img([y \in 1..Height(gray) |-> [x \in 1..Width(gray) |-> ThresholdPixel(gray.rows[y][x], t)]])

\* update_binary_image: the new value of binary_image.
update_binary_image(gray, old, t) == IF gray.isNone THEN old ELSE threshold(gray, t)

\* --------------------------------------------------------- crop geometry
\* Size of image_label inside the 800 x 600 dialog once the layout has run
\* (dialog size minus the layout margins, the spacing and the button row).
LabelW == 778

LabelH == 549

drag_threshold == 10

min_crop_size == 20

\* The inset of the default rectangle from each preview edge.
crop_inset == 20

\* QImage.scaled(size, Qt.KeepAspectRatio): QSize::scaled in integer
\* arithmetic, each side then raised to at least 1.
ScaledSize(w, h, lw, lh) ==
  LET rw == (lh * w) \div h
  IN IF rw <= lw THEN <<Max(rw, 1), Max(lh, 1)>>
                 ELSE <<Max(lw, 1), Max((lw * h) \div w, 1)>>

\* _get_valid_image_coords: label coordinates to clamped preview coordinates.
ValidImageCoords(mouse_x, mouse_y, off_x, off_y, img_w, img_h) ==
  << Max(0, Min(mouse_x - off_x, img_w)), Max(0, Min(mouse_y - off_y, img_h)) >>

\* _judge_drag_type: the edge under the pointer, "none" for None.
JudgeDragTypeTopFirst(img_x, img_y, l, t, r, b) ==
  LET left_ok   == Abs(img_x - l) <= drag_threshold /\ t <= img_y /\ img_y <= b
      right_ok  == Abs(img_x - r) <= drag_threshold /\ t <= img_y /\ img_y <= b
      top_ok    == Abs(img_y - t) <= drag_threshold /\ l <= img_x /\ img_x <= r
      bottom_ok == Abs(img_y - b) <= drag_threshold /\ l <= img_x /\ img_x <= r
  IN IF top_ok THEN "top"
     ELSE IF bottom_ok THEN "bottom"
     ELSE IF left_ok THEN "left"
     ELSE IF right_ok THEN "right"
     ELSE "none"

JudgeDragType(img_x, img_y, l, t, r, b) ==
  LET left_ok   == Abs(img_x - l) <= drag_threshold /\ t <= img_y /\ img_y <= b
      right_ok  == Abs(img_x - r) <= drag_threshold /\ t <= img_y /\ img_y <= b
      top_ok    == Abs(img_y - t) <= drag_threshold /\ l <= img_x /\ img_x <= r
      bottom_ok == Abs(img_y - b) <= drag_threshold /\ l <= img_x /\ img_x <= r
  IN IF left_ok THEN "left"
     ELSE IF right_ok THEN "right"
     ELSE IF top_ok THEN "top"
     ELSE IF bottom_ok THEN "bottom"
     ELSE "none"

\* numpy basic slicing a[lo:hi] on an axis of length n: negative indices count
\* from the end, both ends are clipped to 0..n; the result is the 1-based
\* index range lo'+1 .. hi' (empty when hi' <= lo').
SliceIdx(i, n) == IF i < 0 THEN Max(0, i + n) ELSE Min(i, n)

\* original_image[top:bottom, left:right]
SliceImage(img, top, bottom, left, right) ==
  LET h  == Height(img)
      w  == Width(img)
      t0 == SliceIdx(top, h)
      b0 == SliceIdx(bottom, h)
      l0 == SliceIdx(left, w)
      r0 == SliceIdx(right, w)
  IN Img([y \in 1..Max(b0 - t0, 0) |-> SubSeq(img.rows[t0 + y], l0 + 1, r0)])

\* ------------------------------------------------------ contours, measures
\* Real numbers with at most four decimals are kept as integers in units of
\* 1/10000 (so 4.0 is 40000): the values round(x, 4) produces.
Fixed == 10000

\* Foreground pixel positions of a mask, 1-based <<x, y>>.
Foreground(mask) ==
  {p \in (1..Width(mask)) \X (1..Height(mask)) : mask.rows[p[2]][p[1]] # 0}

Adjacent8(p, q) == Abs(p[1] - q[1]) <= 1 /\ Abs(p[2] - q[2]) <= 1

RECURSIVE Flood(_, _, _)
\* The 8-connected component, inside the pixel set all, of the pixels S whose
\* most recently added pixels are F.
Flood(S, F, all) ==
  LET n == {p \in all \ S : \E q \in F : Adjacent8(p, q)}
  IN IF n = {} THEN S ELSE Flood(S \cup n, n, all)

\* The first pixel of a non-empty set in raster order (rows top to bottom,
\* each row left to right).
RasterFirst(S) ==
  CHOOSE p \in S : \A q \in S : p[2] < q[2] \/ (p[2] = q[2] /\ p[1] <= q[1])

RECURSIVE ComponentsInScanOrder(_)
\* The connected foreground regions, in the order a raster scan meets them.
ComponentsInScanOrder(all) ==
  IF all = {} THEN << >>
  ELSE LET c == Flood({RasterFirst(all)}, {RasterFirst(all)}, all)
       IN <<c>> \o ComponentsInScanOrder(all \ c)

Reverse(s) == [i \in 1..Len(s) |-> s[Len(s) + 1 - i]]

\* The bounding box <<x0, y0, x1, y1>> of a pixel set, 0-based as in OpenCV.
BoundingBox(c) ==
  << (CHOOSE x \in {p[1] : p \in c} : \A p \in c : x <= p[1]) - 1,
     (CHOOSE y \in {p[2] : p \in c} : \A p \in c : y <= p[2]) - 1,
     (CHOOSE x \in {p[1] : p \in c} : \A p \in c : x >= p[1]) - 1,
     (CHOOSE y \in {p[2] : p \in c} : \A p \in c : y >= p[2]) - 1 >>

\* A region that fills its bounding box.  The pictures of this model only
\* produce such regions (RegionsAreRectangles), for which the outer border
\* under CHAIN_APPROX_SIMPLE is the list of the box's corners.
IsFilledBox(c) ==
  LET b == BoundingBox(c)
  IN Cardinality(c) = (b[3] - b[1] + 1) * (b[4] - b[2] + 1)

\* The outer border of one region, compressed to its vertices, anticlockwise
\* from the top-left corner: one point for a single pixel, two for a
\* one-pixel-wide run, four otherwise.
OuterBorder(c) ==
  LET b == BoundingBox(c)
  IN IF b[1] = b[3] /\ b[2] = b[4] THEN << <<b[1], b[2]>> >>
     ELSE IF b[1] = b[3] \/ b[2] = b[4] THEN << <<b[1], b[2]>>, <<b[3], b[4]>> >>
     ELSE << <<b[1], b[2]>>, <<b[1], b[4]>>, <<b[3], b[4]>>, <<b[3], b[2]>> >>

\* cv2.findContours(mask, RETR_EXTERNAL, CHAIN_APPROX_SIMPLE): one contour per
\* connected region, returned last-found first.
findContours(mask) ==
  LET comps == Reverse(ComponentsInScanOrder(Foreground(mask)))
  IN [i \in 1..Len(comps) |-> OuterBorder(comps[i])]

NextIdx(c, i) == IF i = Len(c) THEN 1 ELSE i + 1

RECURSIVE SumTo(_, _)
\* f[1] + ... + f[n]
SumTo(f, n) == IF n = 0 THEN 0 ELSE f[n] + SumTo(f, n - 1)

\* cv2.arcLength(contour, closed = True), in units of 1/Fixed.  Every segment
\* of a contour of this model is horizontal or vertical, so its Euclidean
\* length is |dx| + |dy|.
arcLength(c) ==
  Fixed * SumTo([i \in 1..Len(c) |->
                   Abs(c[NextIdx(c, i)][1] - c[i][1]) + Abs(c[NextIdx(c, i)][2] - c[i][2])],
                Len(c))

\* cv2.contourArea(contour): the absolute shoelace area, in units of 1/Fixed.
contourArea(c) ==
  (Fixed \div 2) * Abs(SumTo([i \in 1..Len(c) |->
                                 c[i][1] * c[NextIdx(c, i)][2] - c[NextIdx(c, i)][1] * c[i][2]],
                             Len(c)))

\* round((4 * pi * area) / perimeter ** 2, 4) in units of 1/Fixed, for
\* perimeter > 0 (pi taken as 3.141593).
Circularity(perimeter, area) ==
  LET a == area \div Fixed
      q == (perimeter \div Fixed) * (perimeter \div Fixed)
  IN (4 * 3141593 * a + 50 * q) \div (100 * q)

\* cv2.moments: <<int(m10 / m00), int(m01 / m00)>> of a contour with m00 > 0,
\* the centre of its box.
Centroid(c) ==
  LET xs == {c[i][1] : i \in 1..Len(c)}
      ys == {c[i][2] : i \in 1..Len(c)}
      lo(S) == CHOOSE v \in S : \A u \in S : v <= u
      hi(S) == CHOOSE v \in S : \A u \in S : v >= u
  IN << (lo(xs) + hi(xs)) \div 2, (lo(ys) + hi(ys)) \div 2 >>

\* The particle record goto_page2 appends for the idx-th contour.
ParticleZeroBased(idx, c) ==
  [index |-> idx - 1, perimeter |-> arcLength(c), area |-> contourArea(c),
   circularity |-> Circularity(arcLength(c), contourArea(c))]

Particle(idx, c) ==
  [index |-> idx, perimeter |-> arcLength(c), area |-> contourArea(c),
   circularity |-> Circularity(arcLength(c), contourArea(c))]

\* The test of goto_page2 that discards a contour.
DegeneratePerimeterOnly(c) == arcLength(c) <= 0

Degenerate(c) == arcLength(c) <= 0 \/ contourArea(c) <= 0

\* The overlay label drawn at the centroid, when m00 > 0.
Label(c) ==
  [at |-> Centroid(c), C |-> Circularity(arcLength(c), contourArea(c)),
   A |-> contourArea(c), L |-> arcLength(c)]

\* The indices of the contours the extraction loop accepts, in order.
Accepted(cs) == SelectSeq([i \in 1..Len(cs) |-> i], LAMBDA i : ~Degenerate(cs[i]))

\* ndarray.copy(): the same pixels in storage of their own (shared is whether
\* writing to the result also writes to img).
copyShared(img) == [shared |-> TRUE, img |-> img]

copy(img) == [shared |-> FALSE, img |-> img]

\* The colour the contours are drawn in (BGR).
Green == <<0, 255, 0>>

\* cv2.drawContours(..., thickness 3) of the contour c of a rectangle: the
\* pixels (x, y), counted from 0, at most one pixel away from the outline.
OnStroke(x, y, c) ==
  LET xs == {c[i][1] : i \in 1..Len(c)}
      ys == {c[i][2] : i \in 1..Len(c)}
      near(v, S) == \E e \in S : Abs(v - e) <= 1
      within(v, S) == (\E e \in S : v >= e - 1) /\ (\E e \in S : v <= e + 1)
  IN \/ near(x, xs) /\ within(y, ys)
     \/ near(y, ys) /\ within(x, xs)

Paint(rows, drawn) ==
  [y \in 1..Len(rows) |->
     [x \in 1..Len(rows[y]) |->
        IF \E k \in 1..Len(drawn) : OnStroke(x - 1, y - 1, drawn[k])
          THEN Green ELSE rows[y][x]]]

\* An annotated image: the base pixels with the contours drawn on them, the
\* contours drawn and the labels written (one per contour with m00 > 0).
NoneProcessed == [isNone |-> TRUE, rows |-> << >>, drawn |-> << >>, labels |-> << >>]

Annotated(base, cs, idxs) ==
  LET drawn == [k \in 1..Len(idxs) |-> cs[idxs[k]]]
  IN [isNone |-> FALSE, rows |-> Paint(base.rows, drawn), drawn |-> drawn,
      labels |-> LET lab == SelectSeq(idxs, LAMBDA i : contourArea(cs[i]) > 0)
                 IN [k \in 1..Len(lab) |-> Label(cs[lab[k]])]]

\* The image img after a handler has drawn result on the copy cp of it.
AfterDrawing(img, cp, result) == IF cp.shared THEN Img(result.rows) ELSE img

\* -------------------------------------------------------------------- text
\* Text is a sequence of Unicode code points.
Digit(n) == 48 + n

IsDigit(ch) == ch >= 48 /\ ch <= 57

RECURSIVE lstrip(_)
lstrip(text) ==
  IF Len(text) > 0 /\ Head(text) = 32 THEN lstrip(Tail(text)) ELSE text

RECURSIVE rstrip(_)
rstrip(text) ==
  IF Len(text) > 0 /\ text[Len(text)] = 32
    THEN rstrip(SubSeq(text, 1, Len(text) - 1)) ELSE text

\* The value of a run of decimal digits.
RECURSIVE DigitsValue(_)
DigitsValue(ds) ==
  IF Len(ds) = 0 THEN 0
  ELSE 10 * DigitsValue(SubSeq(ds, 1, Len(ds) - 1)) + (ds[Len(ds)] - 48)

RECURSIVE Pow10(_)
Pow10(n) == IF n = 0 THEN 1 ELSE 10 * Pow10(n - 1)

\* The number of decimal places the fixed-point unit holds.
FixedPlaces == 4

\* float(text) for the plain forms ( spaces, sign, digits and one point, with
\* at most FixedPlaces decimals; "nan"; "inf" ): kind is "error" where float
\* raises ValueError, else the value is neg/val in units of 1/Fixed.
float(text) ==
  LET s == rstrip(lstrip(text))
      signed == Len(s) > 0 /\ s[1] \in {43, 45}
      neg == Len(s) > 0 /\ s[1] = 45
      body == IF signed THEN Tail(s) ELSE s
      dots == {i \in 1..Len(body) : body[i] = 46}
      dot == IF dots = {} THEN Len(body) + 1 ELSE CHOOSE i \in dots : TRUE
      whole == SubSeq(body, 1, dot - 1)
      frac == SubSeq(body, dot + 1, Len(body))
      plain == /\ Cardinality(dots) <= 1
               /\ \A i \in 1..Len(body) : IsDigit(body[i]) \/ body[i] = 46
               /\ Len(whole) + Len(frac) > 0
               /\ Len(frac) <= FixedPlaces
  IN IF body = <<110, 97, 110>> THEN [kind |-> "nan", neg |-> neg, val |-> 0]
     ELSE IF body = <<105, 110, 102>> THEN [kind |-> "inf", neg |-> neg, val |-> 0]
     ELSE IF plain
       THEN [kind |-> "num", neg |-> neg,
             val |-> DigitsValue(whole) * Fixed
                     + DigitsValue(frac) * Pow10(FixedPlaces - Len(frac))]
       ELSE [kind |-> "error", neg |-> FALSE, val |-> 0]

\* min_area < 0, for a parsed value.
IsNegative(f) ==
  \/ f.kind = "inf" /\ f.neg
  \/ f.kind = "num" /\ f.neg /\ f.val > 0

\* area >= min_area, for an area in units of 1/Fixed and a parsed value: a
\* comparison with nan is false.
AtLeastStrict(area, f) ==
  CASE f.kind = "num" -> area > (IF f.neg THEN 0 - f.val ELSE f.val)
    [] f.kind = "inf" -> f.neg
    [] OTHER -> FALSE

AtLeast(area, f) ==
  CASE f.kind = "num" -> area >= (IF f.neg THEN 0 - f.val ELSE f.val)
    [] f.kind = "inf" -> f.neg
    [] OTHER -> FALSE

\* str(n) of a non-negative int.
RECURSIVE StrInt(_)
StrInt(n) ==
  IF n < 10 THEN << Digit(n) >> ELSE Append(StrInt(n \div 10), Digit(n % 10))

\* The decimals of a fraction f / Fixed, without trailing zeros.
RECURSIVE StrFrac(_, _)
StrFrac(f, places) ==
  IF f = 0 \/ places = 0 THEN << >>
  ELSE LET unit == Pow10(places - 1)
       IN << Digit(f \div unit) >> \o StrFrac(f % unit, places - 1)

\* str(x) of a non-negative float x = v / Fixed rounded to 4 places.
StrFloat(v) ==
  StrInt(v \div Fixed) \o << 46 >> \o
  (IF v % Fixed = 0 THEN << Digit(0) >> ELSE StrFrac(v % Fixed, FixedPlaces))

\* The cells fill_table and csv.writer show for one particle record.
RowTextSwapped(item) ==
  << StrInt(item.index), StrFloat(item.area), StrFloat(item.perimeter),
     StrFloat(item.circularity) >>

RowText(item) ==
  << StrInt(item.index), StrFloat(item.perimeter), StrFloat(item.area),
     StrFloat(item.circularity) >>

\* The header row save_processed_csv writes.
CsvHeader ==
  << <<24207, 21495>>, <<21608, 38271>>, <<38754, 31215>>, <<22278, 24418, 24230>> >>

\* ------------------------------------------------------------- zoom factor
\* A Python float (IEEE double) x between 0 and 16 is written <<k, d>> with
\* x = (k * 2^56 + d) / (10 * 2^56): k counts tenths and d is the rest, in
\* tenths of 2^-56.  The float 0.1 is <<1, 4>>, 1.0 is <<10, 0>>.
\* log2 of the spacing, in units of 2^-56, of the doubles around the real
\* number <<k, d>>: 0 below 0.125, doubling at every power of two up to 7.
Spacing(k, d) ==
  IF k <= 1 THEN 0
  ELSE IF k = 2 THEN 1
  ELSE IF k <= 4 THEN 2
  ELSE IF k <= 9 THEN 3
  ELSE IF k = 10 THEN (IF d >= 0 THEN 4 ELSE 3)
  ELSE IF k <= 19 THEN 4
  ELSE IF k = 20 THEN (IF d >= 0 THEN 5 ELSE 4)
  ELSE IF k <= 39 THEN 5
  ELSE IF k = 40 THEN (IF d >= 0 THEN 6 ELSE 5)
  ELSE IF k <= 79 THEN 6
  ELSE IF k = 80 THEN (IF d >= 0 THEN 7 ELSE 6)
  ELSE 7

RECURSIVE Pow2(_)
Pow2(n) == IF n = 0 THEN 1 ELSE 2 * Pow2(n - 1)

\* 2^(56 - s) modulo 10 and modulo 20, for s in 0..7.
PowMod10(s) == << 6, 8, 4, 2 >>[(s % 4) + 1]

PowMod20(s) == << 16, 8, 4, 12 >>[(s % 4) + 1]

\* The double nearest to the real number <<k, d>>, ties to the even
\* mantissa: the doubles around it are the <<k, g * e>> with g the spacing and
\* k * 2^56 / g + e a multiple of 10.  A real number below 0.1 that is the
\* exact difference of two doubles is a double itself.
RoundToDouble(k, d) ==
  IF k = 0 THEN <<k, d>>
  ELSE LET s == Spacing(k, d)
           g == Pow2(s)
           r == (10 - ((k * PowMod10(s)) % 10)) % 10
           e1 == (((d \div g) - r) \div 10) * 10 + r
           e2 == e1 + 10
           below == d - g * e1
           above == g * e2 - d
           even1 == (((k * PowMod20(s) + e1) % 20) \div 10) = 0
       IN IF below < above \/ (below = above /\ even1) THEN <<k, g * e1>>
                                                        ELSE <<k, g * e2>>

\* a + b and a - b in float arithmetic.
FloatAdd(a, b) == RoundToDouble(a[1] + b[1], a[2] + b[2])

FloatSub(a, b) == RoundToDouble(a[1] - b[1], a[2] - b[2])

\* a < b
FloatLess(a, b) == a[1] < b[1] \/ (a[1] = b[1] /\ a[2] < b[2])

\* min(a, b) and max(a, b) of Python: the first argument unless the second
\* is smaller (larger).
FloatMin(a, b) == IF FloatLess(b, a) THEN b ELSE a

FloatMax(a, b) == IF FloatLess(a, b) THEN b ELSE a

\* The zoom parameters of ZoomableGraphicsView: 0.1, 10.0, 0.1, and the
\* zoom factor 1.0 of a fresh view and of a newly displayed image.
min_zoom == <<1, 4>>

max_zoom == <<100, 0>>

zoom_step == <<1, 4>>

NoZoom == <<10, 0>>

\* wheelEvent, lines 32-38: the new zoom factor for a wheel turn of delta.
new_zoom_unbounded_below(zoom, delta) ==
  LET stepped == IF delta > 0 THEN FloatAdd(zoom, zoom_step)
                              ELSE FloatSub(zoom, zoom_step)
  IN FloatMin(max_zoom, stepped)

new_zoom(zoom, delta) ==
  LET stepped == IF delta > 0 THEN FloatAdd(zoom, zoom_step)
                              ELSE FloatSub(zoom, zoom_step)
  IN FloatMax(min_zoom, FloatMin(max_zoom, stepped))

\* The three views: view1, view2 and view3 of pages 1, 2 and 3.
Views == {1, 2, 3}

\* set_image of the view v with an image: the zoom factor is 1.0 again.
set_image(zoom, v) == [zoom EXCEPT ![v] = NoZoom]

\* One wheel notch up and one down, as angleDelta().y().
WheelDeltas == {120, -120}

\* ------------------------------------------------------------------ bounds
\* Slider positions tried (the slider ranges over 0..255).
Thresholds == {0, 160, 255}

DefaultThreshold == 160

\* Pointer positions, in label coordinates (positions outside the label are
\* delivered while a button is held down).  The whole session is explored
\* with a press on the left and on the right edge of the default rectangle
\* and a move beyond the bottom-right corner; the crop editor on its own
\* (EditorSpec) with a press on every edge, in a corner and inside, and moves
\* beyond both corners and inside.
PressPoints == { <<20, 250>>, <<758, 250>> }

MovePoints == { <<900, 700>> }

EditorPressPoints ==
  { <<20, 250>>, <<758, 250>>, <<389, 35>>, <<389, 513>>, <<25, 40>>, <<389, 250>> }

EditorMovePoints == { <<-5, -5>>, <<900, 700>>, <<389, 250>> }

MouseButtons == {"left", "right"}

\* Texts typed into the minimum-area field: "0", "2", " 1.5", "16", "-2", "",
\* "nan".
AreaTexts ==
  { << 48 >>, << 50 >>, << 32, 49, 46, 53 >>, << 49, 54 >>, << 45, 50 >>, << >>,
    << 110, 97, 110 >> }

\* The history counter commits stops counting at MaxCommits.
MaxCommits == 2

\* The text the minimum-area field is created with: "0".
DefaultAreaText == << Digit(0) >>

\* filtered_particle_data before filter_particles has assigned it.
NoAttribute == [exists |-> FALSE, data |-> << >>]

\* The paths a save dialog can return besides "" (cancelled).
ImageSavePaths == {"grains_processed.png"}

CsvSavePaths == {"grains_processed.csv"}

NoFile == [exists |-> FALSE]

\* The files the program can write, none of them written yet.
NoFiles == [f \in ImageSavePaths \cup CsvSavePaths |-> NoFile]

\* ------------------------------------------------------------------- state
VARIABLES
  original_image_path, original_image, cropped_image, gray_image,
  binary_image, current_threshold, crop_btn, next1_btn, page,
  processed_image, particle_data, table,
  area_threshold_input, filtered_particle_data, files,
  zoom_factor,
  message, fault, commits,
  dlg_open, dlg_image, crop_left, crop_top, crop_right, crop_bottom,
  is_dragging, drag_type,
  scaled_w, scaled_h, scale_w, scale_h, img_offset_x, img_offset_y

imageVars == <<original_image_path, original_image, cropped_image, gray_image,
               binary_image, current_threshold, crop_btn, next1_btn, page>>

filterVars == <<area_threshold_input, filtered_particle_data, files>>

resultVars == <<processed_image, particle_data, table, filterVars>>

sessionVars == <<imageVars, resultVars>>

rectVars == <<crop_left, crop_top, crop_right, crop_bottom>>

dragVars == <<is_dragging, drag_type>>

previewVars == <<scaled_w, scaled_h, scale_w, scale_h, img_offset_x, img_offset_y>>

dialogVars == <<dlg_open, dlg_image, rectVars, dragVars, previewVars>>

vars == <<sessionVars, zoom_factor, message, fault, commits, dialogVars>>

Init ==
  /\ original_image_path = ""
  /\ original_image = None
  /\ cropped_image = None
  /\ gray_image = None
  /\ binary_image = None
  /\ current_threshold = DefaultThreshold
  /\ crop_btn = FALSE
  /\ next1_btn = FALSE
  /\ page = 0
  /\ processed_image = NoneProcessed
  /\ particle_data = << >>
  /\ table = << >>
  /\ area_threshold_input = DefaultAreaText
  /\ filtered_particle_data = NoAttribute
  /\ files = NoFiles
  /\ zoom_factor = [v \in Views |-> NoZoom]
  /\ message = "none"
  /\ fault = "none"
  /\ commits = 0
  /\ dlg_open = FALSE
  /\ dlg_image = None
  /\ crop_left = 0
  /\ crop_top = 0
  /\ crop_right = 0
  /\ crop_bottom = 0
  /\ is_dragging = FALSE
  /\ drag_type = "none"
  /\ scaled_w = 0
  /\ scaled_h = 0
  /\ scale_w = <<1, 1>>
  /\ scale_h = <<1, 1>>
  /\ img_offset_x = 0
  /\ img_offset_y = 0

\* ----------------------------------------------------------------- actions
\* upload_image, the file dialog returning file_path.
upload_image(file_path) ==
  /\ page = 0
  /\ ~dlg_open
  /\ IF file_path = ""
       THEN /\ message' = "none"
            /\ UNCHANGED <<sessionVars, commits>>
       ELSE /\ original_image_path' = file_path
            /\ commits' = 0
            /\ original_image' = imread(file_path)
            /\ cropped_image' = None
            /\ IF imread(file_path).isNone
                 THEN /\ message' = "cannot_read"
                      /\ UNCHANGED <<gray_image, binary_image, crop_btn, next1_btn>>
                 ELSE /\ gray_image' = cvtColorGray(imread(file_path))
                      /\ binary_image' = update_binary_image(cvtColorGray(imread(file_path)),
                                                             binary_image, current_threshold)
                      /\ crop_btn' = TRUE
                      /\ next1_btn' = TRUE
                      /\ message' = "none"
            /\ UNCHANGED <<current_threshold, page, resultVars>>
  /\ fault' = "none"
  /\ UNCHANGED dialogVars
  /\ zoom_factor' = IF file_path # "" /\ ~imread(file_path).isNone
                     THEN set_image(zoom_factor, 1) ELSE zoom_factor

\* update_threshold, the slider moved to value.
update_threshold_on_any_page(value) ==
  /\ ~dlg_open
  /\ value # current_threshold
  /\ current_threshold' = value
  /\ LET target_image == IF ~cropped_image.isNone THEN cropped_image ELSE original_image
     IN IF target_image.isNone
          THEN /\ fault' = "none"
               /\ UNCHANGED <<gray_image, binary_image, next1_btn>>
          ELSE IF cvtColorRaises(target_image)
            THEN /\ fault' = "cv2.error"
                 /\ UNCHANGED <<gray_image, binary_image, next1_btn>>
            ELSE /\ gray_image' = cvtColorGray(target_image)
                 /\ binary_image' = update_binary_image(cvtColorGray(target_image),
                                                        binary_image, value)
                 /\ next1_btn' = TRUE
                 /\ fault' = "none"
  /\ message' = "none"
  /\ UNCHANGED <<original_image_path, original_image, cropped_image, crop_btn, page,
                 resultVars, commits>>
  /\ UNCHANGED dialogVars
  /\ zoom_factor' =
       LET target_image == IF ~cropped_image.isNone THEN cropped_image ELSE original_image
       IN IF ~target_image.isNone /\ ~cvtColorRaises(target_image)
            THEN set_image(zoom_factor, 1) ELSE zoom_factor

update_threshold(value) ==
  /\ page = 0
  /\ ~dlg_open
  /\ value # current_threshold
  /\ current_threshold' = value
  /\ LET target_image == IF ~cropped_image.isNone THEN cropped_image ELSE original_image
     IN IF target_image.isNone
          THEN /\ fault' = "none"
               /\ UNCHANGED <<gray_image, binary_image, next1_btn>>
          ELSE IF cvtColorRaises(target_image)
            THEN /\ fault' = "cv2.error"
                 /\ UNCHANGED <<gray_image, binary_image, next1_btn>>
            ELSE /\ gray_image' = cvtColorGray(target_image)
                 /\ binary_image' = update_binary_image(cvtColorGray(target_image),
                                                        binary_image, value)
                 /\ next1_btn' = TRUE
                 /\ fault' = "none"
  /\ message' = "none"
  /\ UNCHANGED <<original_image_path, original_image, cropped_image, crop_btn, page,
                 resultVars, commits>>
  /\ UNCHANGED dialogVars
  /\ zoom_factor' =
       LET target_image == IF ~cropped_image.isNone THEN cropped_image ELSE original_image
       IN IF ~target_image.isNone /\ ~cvtColorRaises(target_image)
            THEN set_image(zoom_factor, 1) ELSE zoom_factor

\* _init_image_display: the preview size, scale factors (as <<numerator,
\* denominator>>), offsets and the default rectangle for the dialog's image.
InitImageDisplay(img) ==
  LET sz == ScaledSize(Width(img), Height(img), LabelW, LabelH)
  IN [scaled_w |-> sz[1], scaled_h |-> sz[2],
      scale_w |-> <<Width(img), sz[1]>>, scale_h |-> <<Height(img), sz[2]>>,
      img_offset_x |-> (LabelW - sz[1]) \div 2,
      img_offset_y |-> (LabelH - sz[2]) \div 2,
      crop_left |-> crop_inset, crop_top |-> crop_inset,
      crop_right |-> sz[1] - crop_inset, crop_bottom |-> sz[2] - crop_inset]

init_image_display(img) ==
  LET d == InitImageDisplay(img)
  IN /\ scaled_w' = d.scaled_w
     /\ scaled_h' = d.scaled_h
     /\ scale_w' = d.scale_w
     /\ scale_h' = d.scale_h
     /\ img_offset_x' = d.img_offset_x
     /\ img_offset_y' = d.img_offset_y
     /\ crop_left' = d.crop_left
     /\ crop_top' = d.crop_top
     /\ crop_right' = d.crop_right
     /\ crop_bottom' = d.crop_bottom

\* The image open_crop_dialog hands to the dialog.
DialogImageTarget(original, cropped) == IF IsPresent(cropped) THEN cropped ELSE original

DialogImage(original, cropped) == original

\* open_crop_dialog: a new ImageCropDialog on original_image, shown modally
\* (the constructor, then on_show_event).
open_crop_dialog ==
  /\ page = 0
  /\ ~dlg_open
  /\ crop_btn
  /\ IF original_image.isNone
       THEN /\ message' = "upload_first"
            /\ UNCHANGED dialogVars
       ELSE /\ dlg_open' = TRUE
            /\ dlg_image' = DialogImage(original_image, cropped_image)
            /\ is_dragging' = FALSE
            /\ drag_type' = "none"
            /\ init_image_display(DialogImage(original_image, cropped_image))
            /\ message' = "none"
  /\ fault' = "none"
  /\ UNCHANGED <<sessionVars, commits>>
  /\ UNCHANGED zoom_factor

\* on_mouse_press
on_mouse_press(button, mouse_x, mouse_y) ==
  /\ dlg_open
  /\ IF button = "left"
       THEN LET c == ValidImageCoords(mouse_x, mouse_y, img_offset_x, img_offset_y,
                                      scaled_w, scaled_h)
                d == JudgeDragType(c[1], c[2], crop_left, crop_top, crop_right, crop_bottom)
            IN /\ drag_type' = d
               /\ is_dragging' = (d # "none")
       ELSE UNCHANGED dragVars
  /\ message' = "none"
  /\ fault' = "none"
  /\ UNCHANGED <<sessionVars, commits, dlg_open, dlg_image, rectVars, previewVars>>
  /\ UNCHANGED zoom_factor

\* _update_crop_coords: the new <<left, top, right, bottom>>.
UpdateCropCoordsPushing(d, img_x, img_y, l, t, r, b, img_w, img_h) ==
  IF d = "left"
    THEN LET n == Max(0, Min(img_x, img_w - min_crop_size))
         IN <<n, t, Max(r, n + min_crop_size), b>>
  ELSE IF d = "right" THEN <<l, t, Min(img_w, Max(img_x, l + min_crop_size)), b>>
  ELSE IF d = "top" THEN <<l, Max(0, Min(img_y, b - min_crop_size)), r, b>>
  ELSE IF d = "bottom" THEN <<l, t, r, Min(img_h, Max(img_y, t + min_crop_size))>>
  ELSE <<l, t, r, b>>

UpdateCropCoords(d, img_x, img_y, l, t, r, b, img_w, img_h) ==
  IF d = "left" THEN <<Max(0, Min(img_x, r - min_crop_size)), t, r, b>>
  ELSE IF d = "right" THEN <<l, t, Min(img_w, Max(img_x, l + min_crop_size)), b>>
  ELSE IF d = "top" THEN <<l, Max(0, Min(img_y, b - min_crop_size)), r, b>>
  ELSE IF d = "bottom" THEN <<l, t, r, Min(img_h, Max(img_y, t + min_crop_size))>>
  ELSE <<l, t, r, b>>

\* on_mouse_move
on_mouse_move(mouse_x, mouse_y) ==
  /\ dlg_open
  /\ IF is_dragging /\ drag_type # "none"
       THEN LET c == ValidImageCoords(mouse_x, mouse_y, img_offset_x, img_offset_y,
                                      scaled_w, scaled_h)
                n == UpdateCropCoords(drag_type, c[1], c[2], crop_left, crop_top,
                                      crop_right, crop_bottom, scaled_w, scaled_h)
            IN /\ crop_left' = n[1]
               /\ crop_top' = n[2]
               /\ crop_right' = n[3]
               /\ crop_bottom' = n[4]
       ELSE UNCHANGED rectVars
  /\ message' = "none"
  /\ fault' = "none"
  /\ UNCHANGED <<sessionVars, commits, dlg_open, dlg_image, dragVars, previewVars>>
  /\ UNCHANGED zoom_factor

\* on_mouse_release
on_mouse_release_keeping_edge(button) ==
  /\ dlg_open
  /\ IF button = "left"
       THEN /\ is_dragging' = FALSE
            /\ UNCHANGED drag_type
       ELSE UNCHANGED dragVars
  /\ message' = "none"
  /\ fault' = "none"
  /\ UNCHANGED <<sessionVars, commits, dlg_open, dlg_image, rectVars, previewVars>>
  /\ UNCHANGED zoom_factor

on_mouse_release(button) ==
  /\ dlg_open
  /\ IF button = "left"
       THEN /\ is_dragging' = FALSE
            /\ drag_type' = "none"
       ELSE UNCHANGED dragVars
  /\ message' = "none"
  /\ fault' = "none"
  /\ UNCHANGED <<sessionVars, commits, dlg_open, dlg_image, rectVars, previewVars>>
  /\ UNCHANGED zoom_factor

\* on_reset
on_reset ==
  /\ dlg_open
  /\ init_image_display(dlg_image)
  /\ message' = "none"
  /\ fault' = "none"
  /\ UNCHANGED <<sessionVars, commits, dlg_open, dlg_image, dragVars>>
  /\ UNCHANGED zoom_factor

\* The dialog object after QDialog.accept / QDialog.reject.  No code reads a
\* closed dialog again (open_crop_dialog builds a new one), so its fields are
\* returned to the values the constructor gives them.
DialogDiscarded ==
  /\ dlg_open' = FALSE
  /\ dlg_image' = None
  /\ crop_left' = 0
  /\ crop_top' = 0
  /\ crop_right' = 0
  /\ crop_bottom' = 0
  /\ is_dragging' = FALSE
  /\ drag_type' = "none"
  /\ scaled_w' = 0
  /\ scaled_h' = 0
  /\ scale_w' = <<1, 1>>
  /\ scale_h' = <<1, 1>>
  /\ img_offset_x' = 0
  /\ img_offset_y' = 0

\* The cancel button: QDialog.reject.
reject ==
  /\ dlg_open
  /\ DialogDiscarded
  /\ message' = "none"
  /\ fault' = "none"
  /\ UNCHANGED <<sessionVars, commits>>
  /\ UNCHANGED zoom_factor

\* The rectangle mapped to original-image coordinates:
\* <<orig_left, orig_top, orig_right, orig_bottom>>.
MappedRect ==
  << IntTrunc(crop_left * scale_w[1], scale_w[2]),
     IntTrunc(crop_top * scale_h[1], scale_h[2]),
     IntTrunc(crop_right * scale_w[1], scale_w[2]),
     IntTrunc(crop_bottom * scale_h[1], scale_h[2]) >>

\* on_confirm_crop; on success the crop_completed signal runs
\* on_crop_completed in the main window before the dialog closes.  An
\* exception raised inside the slot is printed by the binding and the
\* emitting handler carries on.
on_confirm_crop ==
  /\ dlg_open
  /\ LET m == MappedRect
         orig_h == Height(dlg_image)
         orig_w == Width(dlg_image)
         cropped_img == SliceImage(dlg_image, m[2], m[4], m[1], m[3])
     IN IF dlg_image.isNone \/ scaled_w = 0
          THEN /\ message' = "no_valid_image"
               /\ fault' = "none"
               /\ UNCHANGED <<sessionVars, commits, dialogVars>>
          ELSE IF m[1] < 0 \/ m[2] < 0 \/ m[3] > orig_w \/ m[4] > orig_h
            THEN /\ message' = "out_of_bounds"
                 /\ fault' = "none"
                 /\ UNCHANGED <<sessionVars, commits, dialogVars>>
            ELSE /\ cropped_image' = cropped_img
                 /\ IF cvtColorRaises(cropped_img)
                      THEN /\ fault' = "cv2.error"
                           /\ UNCHANGED <<gray_image, binary_image, next1_btn>>
                      ELSE /\ gray_image' = cvtColorGray(cropped_img)
                           /\ binary_image' = update_binary_image(cvtColorGray(cropped_img),
                                                                  binary_image, current_threshold)
                           /\ next1_btn' = TRUE
                           /\ fault' = "none"
                 /\ message' = "crop_ok"
                 /\ commits' = Min(commits + 1, MaxCommits)
                 /\ DialogDiscarded
                 /\ UNCHANGED <<original_image_path, original_image, current_threshold,
                                crop_btn, page, resultVars>>
  /\ zoom_factor' = IF message' = "crop_ok" /\ fault' = "none"
                     THEN set_image(zoom_factor, 1) ELSE zoom_factor

\* goto_page2: the "next" button of page 1.  draw_raises is whether
\* cv2.drawContours rejects an empty target image; with an empty target the
\* handler raises at the latest when it converts the overlay for display.
goto_page2(draw_raises) ==
  /\ page = 0
  /\ ~dlg_open
  /\ next1_btn
  /\ draw_raises => IsEmpty(cropped_image)
  /\ IF binary_image.isNone
       THEN /\ message' = "upload_and_threshold_first"
            /\ fault' = "none"
            /\ UNCHANGED sessionVars
       ELSE LET contours == findContours(binary_image)
                target_original == IF ~cropped_image.isNone THEN cropped_image
                                                             ELSE original_image
                acc == Accepted(contours)
                all == [k \in 1..Len(acc) |-> Particle(acc[k], contours[acc[k]])]
            IN /\ message' = "none"
               /\ IF target_original.isNone
                    THEN /\ particle_data' = << >>
                         /\ fault' = "AttributeError"
                         /\ UNCHANGED <<original_image, cropped_image, processed_image,
                                        table, page>>
                    ELSE LET cp == copy(target_original)
                             done == IF IsEmpty(target_original) /\ draw_raises /\ Len(acc) > 0
                                       THEN << >> ELSE acc
                             result == Annotated(cp.img, contours, done)
                         IN /\ processed_image' = result
                            /\ cropped_image' =
                                 IF cropped_image.isNone THEN cropped_image
                                 ELSE AfterDrawing(cropped_image, cp, result)
                            /\ original_image' =
                                 IF cropped_image.isNone
                                   THEN AfterDrawing(original_image, cp, result)
                                   ELSE original_image
                            /\ IF IsEmpty(target_original)
                                 THEN /\ fault' = "cv2.error"
                                      /\ particle_data' =
                                           IF draw_raises /\ Len(acc) > 0
                                             THEN << all[1] >> ELSE all
                                      /\ UNCHANGED <<table, page>>
                                 ELSE /\ fault' = "none"
                                      /\ particle_data' = all
                                      /\ table' = [k \in 1..Len(all) |-> RowText(all[k])]
                                      /\ page' = 1
               /\ UNCHANGED <<original_image_path, gray_image, binary_image,
                              current_threshold, crop_btn, next1_btn, filterVars>>
  /\ UNCHANGED <<commits, dialogVars>>
  /\ zoom_factor' = IF page' = 1 THEN set_image(zoom_factor, 2) ELSE zoom_factor

\* filter_particles: the "confirm" button of page 2, with text in the
\* minimum-area field.
filter_particles(text) ==
  /\ page = 1
  /\ area_threshold_input' = text
  /\ LET min_area == float(text)
     IN IF min_area.kind = "error" \/ IsNegative(min_area)
          THEN /\ message' = "invalid_min_area"
               /\ UNCHANGED <<imageVars, processed_image, particle_data, table,
                              filtered_particle_data>>
          ELSE LET filtered_data ==
                     SelectSeq(particle_data, LAMBDA item : AtLeast(item.area, min_area))
                   target_original == IF ~cropped_image.isNone THEN cropped_image
                                                                ELSE original_image
                   cp == copy(target_original)
                   contours == findContours(binary_image)
                   filtered_contours ==
                     SelectSeq([i \in 1..Len(contours) |-> i],
                               LAMBDA i : AtLeast(contourArea(contours[i]), min_area))
                   result == Annotated(cp.img, contours, filtered_contours)
               IN /\ message' = "none"
                  /\ processed_image' = result
                  /\ cropped_image' =
                       IF cropped_image.isNone THEN cropped_image
                       ELSE AfterDrawing(cropped_image, cp, result)
                  /\ original_image' =
                       IF cropped_image.isNone
                         THEN AfterDrawing(original_image, cp, result)
                         ELSE original_image
                  /\ table' = [k \in 1..Len(filtered_data) |-> RowText(filtered_data[k])]
                  /\ filtered_particle_data' = [exists |-> TRUE, data |-> filtered_data]
                  /\ page' = 2
                  /\ UNCHANGED <<original_image_path, gray_image, binary_image,
                                 current_threshold, crop_btn, next1_btn, particle_data>>
  /\ fault' = "none"
  /\ UNCHANGED <<files, commits, dialogVars>>
  /\ zoom_factor' = IF page' = 2 THEN set_image(zoom_factor, 3) ELSE zoom_factor

\* "if not save_path": the save dialog was cancelled.
Cancelled(save_path) == save_path = ""

\* The test both export handlers start with: no picture was chosen, or the
\* result to export is not present.
NothingToSavePathOnly(path, present) == path = ""

NothingToSave(path, present) == path = "" \/ ~present

\* save_processed_image, the save dialog (if it is shown) returning save_path.
save_processed_image(save_path) ==
  /\ IF NothingToSave(original_image_path, ~processed_image.isNone)
       THEN /\ message' = "no_image_to_save"
            /\ UNCHANGED files
       ELSE IF Cancelled(save_path)
         THEN /\ message' = "none"
              /\ UNCHANGED files
         ELSE /\ files' = [f \in DOMAIN files |->
                             IF f = save_path
                               THEN [exists |-> TRUE, kind |-> "image",
                                     rows |-> processed_image.rows]
                               ELSE files[f]]
              /\ message' = "image_saved"
  /\ fault' = "none"
  /\ UNCHANGED <<imageVars, processed_image, particle_data, table,
                 area_threshold_input, filtered_particle_data, commits, dialogVars>>
  /\ UNCHANGED zoom_factor

\* save_processed_csv, the save dialog (if it is shown) returning save_path.
save_processed_csv(save_path) ==
  /\ IF NothingToSave(original_image_path, filtered_particle_data.exists)
       THEN /\ message' = "no_data_to_save"
            /\ UNCHANGED files
       ELSE IF Cancelled(save_path)
         THEN /\ message' = "none"
              /\ UNCHANGED files
         ELSE /\ files' = [f \in DOMAIN files |->
                             IF f = save_path
                               THEN [exists |-> TRUE, kind |-> "csv",
                                     rows |-> << CsvHeader >> \o
                                              [k \in 1..Len(filtered_particle_data.data) |->
                                                 RowText(filtered_particle_data.data[k])]]
                               ELSE files[f]]
              /\ message' = "csv_saved"
  /\ fault' = "none"
  /\ UNCHANGED <<imageVars, processed_image, particle_data, table,
                 area_threshold_input, filtered_particle_data, commits, dialogVars>>
  /\ UNCHANGED zoom_factor

Next ==
  \/ \E f \in FileChoices : upload_image(f)
  \/ \E v \in Thresholds : update_threshold(v)
  \/ open_crop_dialog
  \/ \E b \in MouseButtons, p \in PressPoints : on_mouse_press(b, p[1], p[2])
  \/ \E p \in MovePoints : on_mouse_move(p[1], p[2])
  \/ \E b \in MouseButtons : on_mouse_release(b)
  \/ on_reset
  \/ reject
  \/ on_confirm_crop
  \/ \E d \in BOOLEAN : goto_page2(d)
  \/ \E text \in AreaTexts : filter_particles(text)
  \/ \E f \in ImageSavePaths \cup {""} : page = 2 /\ save_processed_image(f)
  \/ \E f \in CsvSavePaths \cup {""} : page = 2 /\ save_processed_csv(f)

Spec == Init /\ [][Next]_vars

\* wheelEvent of the view v, shown on page v, for a wheel turn of delta.
wheelEvent(v, delta) ==
  /\ page + 1 = v
  /\ ~dlg_open
  /\ zoom_factor' = [zoom_factor EXCEPT ![v] = new_zoom(zoom_factor[v], delta)]
  /\ UNCHANGED <<sessionVars, message, fault, commits, dialogVars>>

\* The view of page 1 on its own: wheel turns over it, and the handlers that
\* display an image in it.
ZoomNext ==
  \/ \E delta \in WheelDeltas : wheelEvent(1, delta)
  \/ \E f \in FileChoices : upload_image(f)
  \/ \E v \in Thresholds : update_threshold(v)

ZoomSpec == Init /\ [][ZoomNext]_vars

\* The export handlers on their own: the session without the crop editor,
\* with save_processed_image and save_processed_csv called on any page (the
\* buttons bound to them are on page 3 only).
ExportNext ==
  \/ \E f \in FileChoices : upload_image(f)
  \/ \E v \in Thresholds : update_threshold(v)
  \/ \E d \in BOOLEAN : goto_page2(d)
  \/ \E text \in AreaTexts : filter_particles(text)
  \/ \E f \in ImageSavePaths \cup {""} : save_processed_image(f)
  \/ \E f \in CsvSavePaths \cup {""} : save_processed_csv(f)

ExportSpec == Init /\ [][ExportNext]_vars

\* The crop editor on its own: the dialog has just been opened on a freshly
\* uploaded picture, and only the editor's handlers run.
EditorInit ==
  \E f \in DecodableFiles :
    LET d == InitImageDisplay(imread(f))
    IN /\ original_image_path = f
       /\ original_image = imread(f)
       /\ cropped_image = None
       /\ gray_image = cvtColorGray(imread(f))
       /\ binary_image = threshold(cvtColorGray(imread(f)), DefaultThreshold)
       /\ current_threshold = DefaultThreshold
       /\ crop_btn = TRUE
       /\ next1_btn = TRUE
       /\ page = 0
       /\ processed_image = NoneProcessed
       /\ particle_data = << >>
       /\ table = << >>
       /\ area_threshold_input = DefaultAreaText
       /\ filtered_particle_data = NoAttribute
       /\ files = NoFiles
       /\ zoom_factor = [v \in Views |-> NoZoom]
       /\ message = "none"
       /\ fault = "none"
       /\ commits = 0
       /\ dlg_open = TRUE
       /\ dlg_image = imread(f)
       /\ is_dragging = FALSE
       /\ drag_type = "none"
       /\ scaled_w = d.scaled_w
       /\ scaled_h = d.scaled_h
       /\ scale_w = d.scale_w
       /\ scale_h = d.scale_h
       /\ img_offset_x = d.img_offset_x
       /\ img_offset_y = d.img_offset_y
       /\ crop_left = d.crop_left
       /\ crop_top = d.crop_top
       /\ crop_right = d.crop_right
       /\ crop_bottom = d.crop_bottom

EditorNext ==
  \/ \E b \in MouseButtons, p \in EditorPressPoints : on_mouse_press(b, p[1], p[2])
  \/ \E p \in EditorMovePoints : on_mouse_move(p[1], p[2])
  \/ \E b \in MouseButtons : on_mouse_release(b)
  \/ on_reset
  \/ reject
  \/ on_confirm_crop

EditorSpec == EditorInit /\ [][EditorNext]_vars

\* Binarization on its own: a one-row picture of two gray pixels (g, g, g) and
\* (h, h, h) has just been uploaded, and only the threshold slider moves, a
\* step at a time or straight to either end.
GrayLevels == 0..255

SecondPixelLevels == {0, 255}

SliderMoves(t) == {v \in {t - 1, t + 1, 0, 255} : 0 <= v /\ v <= 255}

ThresholdInit ==
  \E g \in GrayLevels, h \in SecondPixelLevels :
    LET picture == Img(<< << <<g, g, g>>, <<h, h, h>> >> >>)
    IN /\ original_image_path = "gray.png"
       /\ original_image = picture
       /\ cropped_image = None
       /\ gray_image = cvtColorGray(picture)
       /\ binary_image = threshold(cvtColorGray(picture), DefaultThreshold)
       /\ current_threshold = DefaultThreshold
       /\ crop_btn = TRUE
       /\ next1_btn = TRUE
       /\ page = 0
       /\ processed_image = NoneProcessed
       /\ particle_data = << >>
       /\ table = << >>
       /\ area_threshold_input = DefaultAreaText
       /\ filtered_particle_data = NoAttribute
       /\ files = NoFiles
       /\ zoom_factor = [v \in Views |-> NoZoom]
       /\ message = "none"
       /\ fault = "none"
       /\ commits = 0
       /\ dlg_open = FALSE
       /\ dlg_image = None
       /\ crop_left = 0
       /\ crop_top = 0
       /\ crop_right = 0
       /\ crop_bottom = 0
       /\ is_dragging = FALSE
       /\ drag_type = "none"
       /\ scaled_w = 0
       /\ scaled_h = 0
       /\ scale_w = <<1, 1>>
       /\ scale_h = <<1, 1>>
       /\ img_offset_x = 0
       /\ img_offset_y = 0

ThresholdNext == \E v \in SliderMoves(current_threshold) : update_threshold(v)

ThresholdSpec == ThresholdInit /\ [][ThresholdNext]_vars

\* ------------------------------------------------------------- properties
\* The image the mask is derived from: the crop if there is one, else the
\* uploaded picture.
TargetImage == IF ~cropped_image.isNone THEN cropped_image ELSE original_image

\* Pixel positions of the mask.
MaskPixels == (1..Width(binary_image)) \X (1..Height(binary_image))

\* Every picture of the model only ever yields regions that fill their
\* bounding box, the shapes OuterBorder is written for.
RegionsAreRectangles ==
  ~binary_image.isNone =>
     LET comps == ComponentsInScanOrder(Foreground(binary_image))
     IN \A i \in 1..Len(comps) : IsFilledBox(comps[i])

\* C1: an upload that selects a file that cannot be decoded reports the error
\* and leaves the stored path, the original, cropped and grayscale images, the
\* mask and the enablement of the buttons as they were.
C1_FailedUploadPreservesSession ==
  [][(\E f \in UndecodableFiles : upload_image(f))
       => /\ message' = "cannot_read"
          /\ UNCHANGED <<original_image_path, original_image, cropped_image,
                         gray_image, binary_image, crop_btn, next1_btn>>]_vars

\* C2: whenever the mask is present, the image it was derived from (the crop,
\* else the original) is present too, and the "next" button never fails on a
\* missing image.
C2_MaskHasItsImage ==
  /\ ~binary_image.isNone => ~TargetImage.isNone
  /\ fault # "AttributeError"

\* C3 as stated: a mask pixel is foreground if and only if its gray value is
\* below the threshold; a pixel at the threshold is background.
C3_ForegroundIffBelow ==
  \A p \in MaskPixels :
    (binary_image.rows[p[2]][p[1]] = 255) <=> (gray_image.rows[p[2]][p[1]] < current_threshold)

\* C3 (amended): every mask pixel is 255 (foreground) if its gray value is at
\* most the threshold and 0 (background) otherwise; a pixel at the threshold
\* is foreground.
C3_ForegroundIffNotAbove ==
  \A p \in MaskPixels :
    /\ binary_image.rows[p[2]][p[1]] \in {0, 255}
    /\ (binary_image.rows[p[2]][p[1]] = 255) <=> (gray_image.rows[p[2]][p[1]] <= current_threshold)

\* The slider has been moved and a pixel sits exactly at the threshold.
C3_Witness ==
  /\ current_threshold # DefaultThreshold
  /\ \E p \in MaskPixels :
       /\ gray_image.rows[p[2]][p[1]] = current_threshold
       /\ binary_image.rows[p[2]][p[1]] = 255

\* C4 as stated: threshold 0 gives a mask without any foreground pixel,
\* threshold 255 a mask without any background pixel.
C4_ExtremeThresholds ==
  /\ current_threshold = 0 => \A p \in MaskPixels : binary_image.rows[p[2]][p[1]] = 0
  /\ current_threshold = 255 => \A p \in MaskPixels : binary_image.rows[p[2]][p[1]] = 255

\* C4 (amended): with threshold 0 the foreground is exactly the pixels of gray
\* value 0; with threshold 255 the mask has no background pixel.
C4_ExtremeThresholdsAmended ==
  /\ current_threshold = 0 =>
       \A p \in MaskPixels :
         (binary_image.rows[p[2]][p[1]] = 255) <=> (gray_image.rows[p[2]][p[1]] = 0)
  /\ current_threshold = 255 => \A p \in MaskPixels : binary_image.rows[p[2]][p[1]] = 255

\* The slider is at 0 over a picture with a black and a non-black pixel.
C4_Witness ==
  /\ current_threshold = 0
  /\ \E p \in MaskPixels : binary_image.rows[p[2]][p[1]] = 255
  /\ \E p \in MaskPixels : binary_image.rows[p[2]][p[1]] = 0

\* C5: while the crop editor is open, the rectangle is at least min_crop_size
\* wide and high.
C5_MinCropSize ==
  dlg_open => /\ crop_right - crop_left >= min_crop_size
              /\ crop_bottom - crop_top >= min_crop_size

\* All four mapped edges lie inside the dialog's image.
MappedInBounds ==
  LET m == MappedRect
  IN /\ 0 <= m[1] /\ m[1] <= Width(dlg_image)
     /\ 0 <= m[3] /\ m[3] <= Width(dlg_image)
     /\ 0 <= m[2] /\ m[2] <= Height(dlg_image)
     /\ 0 <= m[4] /\ m[4] <= Height(dlg_image)

\* C6: a commit applies a crop only when all four mapped edges lie within the
\* original image; otherwise it reports "out of bounds" and leaves the
\* session's cropped image, grayscale image and mask alone.
C6_CommitOnlyInBounds ==
  [][(on_confirm_crop /\ ~MappedInBounds)
       => /\ message' = "out_of_bounds"
          /\ UNCHANGED <<cropped_image, gray_image, binary_image>>]_vars

\* The mapped rectangle has no pixel.
MappedDegenerate ==
  LET m == MappedRect
  IN m[1] >= m[3] \/ m[2] >= m[4]

\* C7: a commit whose mapped rectangle is degenerate is reported and aborted:
\* no empty cropped image reaches the session, whose state is preserved.
C7_DegenerateCommitAborted ==
  [][(on_confirm_crop /\ MappedDegenerate)
       => /\ message' \notin {"none", "crop_ok"}
          /\ ~IsEmpty(cropped_image')
          /\ UNCHANGED sessionVars]_vars

\* C8: whenever an original image is loaded, the mask is the binarization, at
\* the current threshold, of the current target image.
C8_MaskFollowsTarget ==
  ~original_image.isNone =>
     binary_image = threshold(cvtColorGray(TargetImage), current_threshold)

\* The region of img selected by the preview rectangle <<l, t, r, b>> of a
\* dialog opened on img.
CropOf(img, l, t, r, b) ==
  LET d == InitImageDisplay(img)
  IN SliceImage(img, IntTrunc(t * d.scale_h[1], d.scale_h[2]),
                     IntTrunc(b * d.scale_h[1], d.scale_h[2]),
                     IntTrunc(l * d.scale_w[1], d.scale_w[2]),
                     IntTrunc(r * d.scale_w[1], d.scale_w[2]))

\* C9: every successful commit, the first as well as one made after re-opening
\* the editor, yields the region of the uploaded picture that the preview
\* rectangle selects, whatever was cropped before; so committing the same
\* rectangle twice yields the same region.
C9_CommitSlicesOriginal ==
  [][(on_confirm_crop /\ message' = "crop_ok")
       => cropped_image' = CropOf(original_image, crop_left, crop_top, crop_right, crop_bottom)]_vars

\* A second commit since the upload has produced a proper, non-empty crop.
C9_Witness ==
  /\ commits = 2
  /\ message = "crop_ok"
  /\ IsPresent(cropped_image)
  /\ cropped_image # original_image

\* C10: every recorded particle has a positive perimeter and a positive area.
C10_ParticlesPositive ==
  \A i \in 1..Len(particle_data) :
    particle_data[i].perimeter > 0 /\ particle_data[i].area > 0

\* An extraction recorded particles and discarded at least one contour.
C10_Witness ==
  /\ page = 1
  /\ Len(particle_data) > 0
  /\ Len(particle_data) < Len(findContours(binary_image))

\* ------------------------------------------------------------------ filter
\* The minimum area a valid text stands for, in units of 1/Fixed.
MinArea == LET f == float(area_threshold_input)
           IN IF f.neg THEN 0 - f.val ELSE f.val

ValidMinArea == float(area_threshold_input).kind = "num" /\ MinArea >= 0

\* C11: after filtering with a valid minimum area, the filtered list holds
\* exactly the particles whose area is at least the minimum (a particle whose
\* area equals it is kept), in the order of the full list; a minimum of 0
\* gives the full list and a minimum above every area the empty list.
C11_FilterKeepsAtLeast ==
  (filtered_particle_data.exists /\ ValidMinArea) =>
    LET kept == filtered_particle_data.data
    IN /\ \A i \in 1..Len(particle_data) :
            (\E k \in 1..Len(kept) : kept[k] = particle_data[i])
              <=> particle_data[i].area >= MinArea
       /\ \A k \in 1..Len(kept) : \E i \in 1..Len(particle_data) : kept[k] = particle_data[i]
       /\ \A k1, k2 \in 1..Len(kept) :
            k1 < k2 => \E i1, i2 \in 1..Len(particle_data) :
                         /\ i1 < i2
                         /\ particle_data[i1] = kept[k1]
                         /\ particle_data[i2] = kept[k2]
       /\ MinArea = 0 => kept = particle_data
       /\ (\A i \in 1..Len(particle_data) : particle_data[i].area < MinArea) => kept = << >>

\* A filter kept a particle whose area equals the minimum and dropped a
\* smaller one.
C11_Witness ==
  /\ page = 2
  /\ ValidMinArea
  /\ Len(filtered_particle_data.data) = 1
  /\ Len(particle_data) = 2
  /\ filtered_particle_data.data[1].area = MinArea

\* The contours of the particles in the filtered list, in list order.
KeptContours ==
  LET contours == findContours(binary_image)
      kept == filtered_particle_data.data
  IN [k \in 1..Len(kept) |-> contours[kept[k].index]]

\* C12: after filtering, the contours drawn on the filtered overlay are
\* exactly the contours of the particles in the filtered list.
C12_OverlayMatchesList ==
  page = 2 => processed_image.drawn = KeptContours

\* The text denotes a non-negative real number.
IsNonNegativeReal(text) ==
  LET f == float(text)
  IN f.kind = "num" /\ (f.neg => f.val = 0)

\* C13: a filter confirmed with a minimum-area text that is not a
\* non-negative real number reports an error and changes neither the particle
\* list, the annotated image, the filtered list nor the displayed page.
C13_InvalidTextChangesNothing ==
  [][\A text \in AreaTexts :
       (filter_particles(text) /\ ~IsNonNegativeReal(text)) =>
         /\ message' = "invalid_min_area"
         /\ UNCHANGED <<particle_data, processed_image, filtered_particle_data, page>>]_vars

\* ------------------------------------------------------------------ export
\* The CSV files written so far.
CsvFiles == {f \in DOMAIN files : files[f].exists /\ files[f].kind = "csv"}

\* One data row per particle of the filtered list, in list order, with the
\* fields index, perimeter, area, circularity.
DataRowsFollow(rows) ==
  LET kept == filtered_particle_data.data
  IN /\ Len(rows) = 1 + Len(kept)
     /\ \A k \in 1..Len(kept) :
          /\ rows[k + 1][1] = StrInt(kept[k].index)
          /\ rows[k + 1][2] = StrFloat(kept[k].perimeter)
          /\ rows[k + 1][3] = StrFloat(kept[k].area)
          /\ rows[k + 1][4] = StrFloat(kept[k].circularity)

\* C14 as stated: a written CSV file starts with the header row "index",
\* "perimeter", "area", "circularity", followed by one row per retained
\* particle.
C14_CsvEnglishHeader ==
  \A f \in CsvFiles :
    /\ files[f].rows[1] =
         << <<105, 110, 100, 101, 120>>,
            <<112, 101, 114, 105, 109, 101, 116, 101, 114>>,
            <<97, 114, 101, 97>>,
            <<99, 105, 114, 99, 117, 108, 97, 114, 105, 116, 121>> >>
    /\ DataRowsFollow(files[f].rows)

\* C14, amended: a written CSV file starts with the header row of the four
\* Chinese column titles (U+5E8F U+53F7, U+5468 U+957F, U+9762 U+79EF,
\* U+5706 U+5F62 U+5EA6), followed by exactly one row per retained particle in
\* list order, with the fields index, perimeter, area, circularity.
C14_CsvRows ==
  \A f \in CsvFiles :
    /\ files[f].rows[1] =
         << <<24207, 21495>>, <<21608, 38271>>, <<38754, 31215>>,
            <<22278, 24418, 24230>> >>
    /\ DataRowsFollow(files[f].rows)

\* A CSV file with two data rows was written, the first one of a particle of
\* perimeter 6.0, area 2.0 and circularity 0.6981.
C14_Witness ==
  \E f \in CsvFiles :
    /\ Len(files[f].rows) = 3
    /\ files[f].rows[2][2] = <<54, 46, 48>>
    /\ files[f].rows[2][3] = <<50, 46, 48>>
    /\ files[f].rows[2][4] = <<48, 46, 54, 57, 56, 49>>

\* C15: an image export with no processed image, and a CSV export with no
\* filtered data, report an error and write no file, whatever a save dialog
\* would have returned; an export whose save dialog is cancelled writes no
\* file.
C15_ExportGuards ==
  [][/\ \A f \in ImageSavePaths \cup {""} :
          save_processed_image(f) =>
            /\ processed_image.isNone =>
                 (message' = "no_image_to_save" /\ UNCHANGED files)
            /\ f = "" => UNCHANGED files
     /\ \A f \in CsvSavePaths \cup {""} :
          save_processed_csv(f) =>
            /\ ~filtered_particle_data.exists =>
                 (message' = "no_data_to_save" /\ UNCHANGED files)
            /\ f = "" => UNCHANGED files]_vars

\* A CSV export was refused for a chosen picture without filtered data, and
\* no file has been written.
C15_Witness ==
  /\ message = "no_data_to_save"
  /\ original_image_path # ""
  /\ ~filtered_particle_data.exists
  /\ \A f \in DOMAIN files : ~files[f].exists

\* ------------------------------------------------------------- crop editor
\* The pointer positions delivered to the editor.
AllPressPoints == PressPoints \cup EditorPressPoints

AllMovePoints == MovePoints \cup EditorMovePoints

EdgeOrder == <<"left", "right", "top", "bottom">>

\* The pointer at label position p, clamped into the preview.
ClampedX(p) == Max(0, Min(p[1] - img_offset_x, scaled_w))

ClampedY(p) == Max(0, Min(p[2] - img_offset_y, scaled_h))

\* The k-th edge of EdgeOrder lies within the drag threshold of the clamped
\* pointer, whose perpendicular coordinate is inside the rectangle's span.
Qualifies(k, p) ==
  LET x == ClampedX(p)
      y == ClampedY(p)
      inRows == crop_top <= y /\ y <= crop_bottom
      inCols == crop_left <= x /\ x <= crop_right
  IN CASE k = 1 -> Abs(x - crop_left) <= drag_threshold /\ inRows
       [] k = 2 -> Abs(x - crop_right) <= drag_threshold /\ inRows
       [] k = 3 -> Abs(y - crop_top) <= drag_threshold /\ inCols
       [] k = 4 -> Abs(y - crop_bottom) <= drag_threshold /\ inCols

\* After the step the editor drags the first qualifying edge, or is idle when
\* no edge qualifies.
EntersFirstEdge(p) ==
  IF \E k \in 1..4 : Qualifies(k, p)
    THEN \E k \in 1..4 :
           /\ Qualifies(k, p)
           /\ \A j \in 1..(k - 1) : ~Qualifies(j, p)
           /\ is_dragging'
           /\ drag_type' = EdgeOrder[k]
    ELSE ~is_dragging' /\ drag_type' = "none"

\* C16: a pointer-down (a press of the left button; the editor ignores the
\* other buttons) enters Dragging on the first edge, in the order left, right,
\* top, bottom, that lies within 10 units of the clamped pointer with the
\* perpendicular coordinate inside the span, and leaves the editor idle when
\* no edge qualifies.
C16_PressEntersFirstEdge ==
  [][\A b \in MouseButtons, p \in AllPressPoints :
       on_mouse_press(b, p[1], p[2]) =>
         IF b = "left" THEN EntersFirstEdge(p) ELSE UNCHANGED dragVars]_vars

\* The editor drags the bottom edge, the last one in the order.
C16_Witness == dlg_open /\ is_dragging /\ drag_type = "bottom"

\* C17: a pointer-move while an edge is dragged changes at most that edge's
\* coordinate and leaves the other three edges, the scale factors and the
\* drag state unchanged; a pointer-move of an idle editor changes no edge.
C17_MoveChangesOnlyDraggedEdge ==
  [][\A p \in AllMovePoints :
       on_mouse_move(p[1], p[2]) =>
         /\ UNCHANGED <<is_dragging, drag_type, scale_w, scale_h>>
         /\ (is_dragging /\ drag_type = "left") => UNCHANGED <<crop_top, crop_right, crop_bottom>>
         /\ (is_dragging /\ drag_type = "right") => UNCHANGED <<crop_left, crop_top, crop_bottom>>
         /\ (is_dragging /\ drag_type = "top") => UNCHANGED <<crop_left, crop_right, crop_bottom>>
         /\ (is_dragging /\ drag_type = "bottom") => UNCHANGED <<crop_left, crop_top, crop_right>>
         /\ ~is_dragging => UNCHANGED rectVars]_vars

\* The left edge is being dragged and a move has taken it away from its
\* initial position, the other edges still being where they were.
C17_Witness ==
  /\ dlg_open
  /\ is_dragging
  /\ drag_type = "left"
  /\ crop_left # crop_inset
  /\ crop_top = crop_inset
  /\ crop_right = scaled_w - crop_inset
  /\ crop_bottom = scaled_h - crop_inset

\* C18: while the crop editor is open, all four edges lie inside the preview:
\* 0 <= left, right <= preview width and 0 <= top, bottom <= preview height.
C18_EdgesInsidePreview ==
  dlg_open =>
    /\ 0 <= crop_left /\ crop_left <= scaled_w
    /\ 0 <= crop_right /\ crop_right <= scaled_w
    /\ 0 <= crop_top /\ crop_top <= scaled_h
    /\ 0 <= crop_bottom /\ crop_bottom <= scaled_h

\* C19: a pointer-up (the release of the left button; the editor ignores the
\* other buttons) returns the editor to Idle whichever edge was dragged; an
\* idle editor's rectangle is not changed by pointer-moves, and it only
\* starts dragging again by a pointer-down; in every state the dragging flag
\* is set if and only if a dragged edge is recorded.
C19_ReleaseReturnsToIdle ==
  /\ [](is_dragging <=> drag_type # "none")
  /\ [][/\ on_mouse_release("left") => (~is_dragging' /\ drag_type' = "none")
        /\ \A p \in AllMovePoints :
             (~is_dragging /\ on_mouse_move(p[1], p[2])) => UNCHANGED rectVars
        /\ (~is_dragging /\ is_dragging') =>
             \E p \in AllPressPoints : on_mouse_press("left", p[1], p[2])]_vars

\* The editor is idle again after an edge was dragged away from its initial
\* position.
C19_Witness ==
  /\ dlg_open
  /\ ~is_dragging
  /\ drag_type = "none"
  /\ crop_right # scaled_w - crop_inset

\* ------------------------------------------------------------------ frames
\* C20: extraction and filtering leave the original image, the cropped image
\* and the mask unchanged (the overlay is drawn on a copy), and filtering
\* leaves the full particle list unchanged.
C20_SourcesUnchanged ==
  [][/\ ((\E d \in BOOLEAN : goto_page2(d)) \/ (\E text \in AreaTexts : filter_particles(text)))
          => UNCHANGED <<original_image, cropped_image, binary_image>>
     /\ (\E text \in AreaTexts : filter_particles(text)) => UNCHANGED particle_data]_vars

\* A filter dropped a particle and drew its overlay, and the uploaded picture
\* still holds the pixels of its file.
C20_Witness ==
  /\ page = 2
  /\ cropped_image.isNone
  /\ original_image = imread(original_image_path)
  /\ processed_image.rows # original_image.rows
  /\ Len(filtered_particle_data.data) < Len(particle_data)

\* ------------------------------------------------------------------- stages
\* a is b with some elements left out, the others in their order.
RECURSIVE IsSubList(_, _)
IsSubList(a, b) ==
  IF Len(a) = 0 THEN TRUE
  ELSE IF Len(b) = 0 THEN FALSE
  ELSE IF Head(a) = Head(b) THEN IsSubList(Tail(a), Tail(b))
  ELSE IsSubList(a, Tail(b))

\* particle_data holds one record for every contour of the current mask with a
\* positive perimeter and area, carrying that contour's measures.
ExtractedFromCurrentMask ==
  /\ ~binary_image.isNone
  /\ LET contours == findContours(binary_image)
     IN /\ \A k \in 1..Len(particle_data) :
             /\ particle_data[k].index \in 1..Len(contours)
             /\ particle_data[k].perimeter = arcLength(contours[particle_data[k].index])
             /\ particle_data[k].area = contourArea(contours[particle_data[k].index])
        /\ \A i \in 1..Len(contours) :
             (arcLength(contours[i]) > 0 /\ contourArea(contours[i]) > 0) =>
               \E k \in 1..Len(particle_data) : particle_data[k].index = i

\* C21: the page index never decreases; page 1 (filter) is entered only from
\* page 0 by goto_page2 on a present mask, page 2 (export) only from page 1 by
\* a filter_particles that reports no error; and whenever page 2 is shown the
\* filtered list exists and is a sub-list of the particle list extracted from
\* the current mask.
C21_ForwardOnly ==
  /\ [][/\ page' >= page
        /\ (page' = 1 /\ page # 1) =>
             (page = 0 /\ ~binary_image.isNone /\ \E d \in BOOLEAN : goto_page2(d))
        /\ (page' = 2 /\ page # 2) =>
             /\ page = 1
             /\ message' # "invalid_min_area"
             /\ \E text \in AreaTexts : filter_particles(text)]_vars
  /\ [](page = 2 =>
          /\ filtered_particle_data.exists
          /\ IsSubList(filtered_particle_data.data, particle_data)
          /\ ExtractedFromCurrentMask)

\* The export page is shown after a CSV export, and the filter has dropped a
\* particle of the extracted list.
C21_Witness ==
  /\ page = 2
  /\ message = "csv_saved"
  /\ Len(particle_data) = 2
  /\ Len(filtered_particle_data.data) = 1

\* ------------------------------------------------------------------ indexes
\* The indexes of a list of records strictly increase.
StrictlyIncreasing(list) ==
  \A k1, k2 \in 1..Len(list) : k1 < k2 => list[k1].index < list[k2].index

\* The k-th record of list carries the 1-based position, among all contours
\* traced in mask, of the k-th contour with a positive perimeter and area.
IndexedByDiscovery(list, mask) ==
  \E contours \in {findContours(mask)} :
    \E kept \in {[i \in 1..Len(contours) |->
                    arcLength(contours[i]) > 0 /\ contourArea(contours[i]) > 0]} :
      \A k \in 1..Len(list) :
        LET i == list[k].index
        IN /\ i \in 1..Len(contours)
           /\ kept[i]
           /\ Cardinality({j \in 1..i : kept[j]}) = k

\* C22: after an extraction each record's index is the 1-based position of its
\* contour in the discovery order of all traced contours, the discarded ones
\* counted; the indexes strictly increase through the particle list and
\* through the filtered list.
C22_IndexIsDiscoveryPosition ==
  /\ [][((\E d \in BOOLEAN : goto_page2(d)) /\ ~binary_image.isNone)
          => IndexedByDiscovery(particle_data', binary_image)]_vars
  /\ [](StrictlyIncreasing(particle_data) /\ StrictlyIncreasing(filtered_particle_data.data))

\* An extraction recorded the first and the third contour and discarded the
\* second, so the indexes are not consecutive.
C22_Witness ==
  /\ page = 1
  /\ Len(particle_data) = 2
  /\ particle_data[1].index = 1
  /\ particle_data[2].index = 3

\* -------------------------------------------------------------------- zoom
\* min_zoom <= z <= max_zoom
InZoomRange(z) == ~FloatLess(z, min_zoom) /\ ~FloatLess(max_zoom, z)

\* The zoom factor z one step of 0.1 up (delta > 0) or down, in float
\* arithmetic.
Stepped(z, delta) ==
  IF delta > 0 THEN FloatAdd(z, zoom_step) ELSE FloatSub(z, zoom_step)

\* The zoom factor of every view is in range, and a handler that displays an
\* image in view1 leaves its zoom factor at 1.0.
ZoomInRangeAndReset ==
  /\ [](\A v \in Views : InZoomRange(zoom_factor[v]))
  /\ [][/\ (\E f \in DecodableFiles : upload_image(f)) => zoom_factor'[1] = NoZoom
        /\ ((\E t \in Thresholds : update_threshold(t)) /\ ~binary_image'.isNone
              /\ fault' = "none" /\ ~original_image.isNone)
             => zoom_factor'[1] = NoZoom]_vars

\* C23 as stated: the zoom factor stays within [0.1, 10.0]; a wheel notch
\* changes it by one step of 0.1 up or down unless the result would be out of
\* the range, in which case the zoom factor stays as it is; displaying an
\* image resets it to 1.0.
C23_NotchOrNoOp ==
  /\ ZoomInRangeAndReset
  /\ [][\A delta \in WheelDeltas :
          wheelEvent(1, delta) =>
            LET z == zoom_factor[1]
            IN zoom_factor'[1] = IF InZoomRange(Stepped(z, delta)) THEN Stepped(z, delta)
                                                                   ELSE z]_vars

\* C23, amended: the zoom factor stays within [0.1, 10.0]; a wheel notch
\* changes it by one step of 0.1 up or down unless the result would be out of
\* the range, in which case the zoom factor becomes the bound it would have
\* crossed; displaying an image resets it to 1.0.
C23_NotchOrBound ==
  /\ ZoomInRangeAndReset
  /\ [][\A delta \in WheelDeltas :
          wheelEvent(1, delta) =>
            LET z == zoom_factor[1]
            IN zoom_factor'[1] =
                 IF FloatLess(Stepped(z, delta), min_zoom) THEN min_zoom
                 ELSE IF FloatLess(max_zoom, Stepped(z, delta)) THEN max_zoom
                 ELSE Stepped(z, delta)]_vars

\* The zoom factor of view1 has arrived at the lower bound 0.1.
C23_Witness == zoom_factor[1] = min_zoom

====
